---- MODULE Spec2Model ----
(***************************************************************************)
(* Model of the cor.adt record framework: the field-conversion algebra     *)
(* (operation.py), the hook factories (hook.py), the error taxonomy        *)
(* (error.py) and the record construction protocol (record.py).            *)
(*                                                                         *)
(* Python values are strings: "None", the ints "1" and "2", the str "car"  *)
(* and the Tag member "Tag.car" (whose .value is "car").  An exception is  *)
(* the sequence of its __cause__ chain, outermost first.                   *)
(***************************************************************************)
EXTENDS Integers, Sequences, FiniteSets, TLC

VARIABLES classes, call, obj, rhs, writes, outcome, heap, pc

vars == <<classes, call, obj, rhs, writes, outcome, heap, pc>>

(***************************************************************************)
(* Bounds of the model.                                                    *)
(***************************************************************************)
\* largest number of keys of a positional mapping handed to a constructor
MaxInputKeys == 4
\* largest number of keyword overrides handed to a constructor
MaxOverrides == 1
\* largest number of attribute writes tried on one instance
MaxWrites == 2
\* largest number of leaf operations combined into one operation by >> and |
MaxOperands == 2
\* largest number of HooksFactory objects one script creates
MaxFactories == 3

(***************************************************************************)
(* Values.                                                                 *)
(***************************************************************************)
None == "None"

Ints == {"0", "1", "2"}

Strs == {"", "car"}

Tags == {"Tag.car"}

\* dict values, written as their literals: a mapping a sub-record type accepts,
\* one it rejects, and one with a key outside its contract
Dicts == {"{a: 1}", "{a: car}", "{a: 1, x: 1}"}

\* record instances as values, written as their constructor calls
InstanceValues == {"Conn(a=1)"}

Values == {None} \cup Ints \cup Strs \cup Tags \cup Dicts \cup InstanceValues

\* the mapping a dict value is
dict_of(v) ==
    CASE v = "{a: 1}" -> [k \in {"a"} |-> "1"]
      [] v = "{a: car}" -> [k \in {"a"} |-> "car"]
      [] v = "{a: 1, x: 1}" -> [k \in {"a", "x"} |-> "1"]

\* the dict value a mapping of plain values is
dict_value(m) == CHOOSE v \in Dicts : dict_of(v) = m

\* type(v).__name__
TypeOf(v) ==
    IF v = None THEN "NoneType"
    ELSE IF v \in Ints THEN "int"
    ELSE IF v \in Strs THEN "str"
    ELSE IF v \in Dicts THEN "dict"
    ELSE IF v \in InstanceValues THEN "Conn"
    ELSE "Tag"

\* bool(v): None, False, 0 and '' are falsy (a dict of the model is not empty,
\* a record instance of the model has fields)
Truthy(v) == v \notin {None, "False", "0", ""}

RECURSIVE instance_as_basic_type(_)
\* as_basic_type: a Tag member gives its .value, a record instance the dict
\* of record_as_basic_type, any other value itself
as_basic_type(v) ==
    IF v = "Tag.car" THEN "car"
    ELSE IF v \in InstanceValues THEN instance_as_basic_type(v)
    ELSE v

\* the element of a one-element set: The({e : x \in {v}}) is e where the local
\* variable x holds v, computed once
The(S) == CHOOSE x \in S : TRUE

(***************************************************************************)
(* Exceptions and results.                                                 *)
(***************************************************************************)
\* one exception object: its class, and the name and info arguments of an
\* error.Error
ExcInfo(type, name, info) == [type |-> type, name |-> name, info |-> info]

\* an exception object without info of interest
Exc(type, name) == ExcInfo(type, name, "")

\* class Error and its subclasses in error.py
FrameworkErrors == {"RecordError", "FieldError", "MissingFieldError", "InvalidFieldError"}

\* issubclass(type, FieldError): nothing in error.py derives from FieldError
IsFieldError(type) == type = "FieldError"

\* a call that returned v
Ok(v) == [ok |-> TRUE, val |-> v, err |-> <<>>]

\* a call that raised the exception whose cause chain is e
Raise(e) == [ok |-> FALSE, val |-> None, err |-> e]

\* raise X(name) from err
RaiseFrom(type, name, err) == Raise(<<Exc(type, name)>> \o err)

(***************************************************************************)
(* Inputs: a mapping is a function from keys to values; NonMapping is a    *)
(* truthy positional argument that is no mapping (a list, a number);       *)
(* NoneArg is the default values=None.                                     *)
(***************************************************************************)
EmptyMap == <<>>

Mapping(m) == [kind |-> "mapping", m |-> m]

NonMapping == [kind |-> "other", m |-> EmptyMap]

NoneArg == [kind |-> "none", m |-> EmptyMap]

\* isinstance(values, collections.Mapping)
IsMapping(values) == values.kind = "mapping"

\* bool(values) of a positional argument
ArgTruthy(values) ==
    \/ values.kind = "other"
    \/ values.kind = "mapping" /\ DOMAIN values.m # {}

\* {**m, **o}
Merge(m, o) ==
    [k \in DOMAIN m \cup DOMAIN o |-> IF k \in DOMAIN o THEN o[k] ELSE m[k]]

(***************************************************************************)
(* Conversions: the callables wrapped by a UnaryOperation.                 *)
(***************************************************************************)
expect_type(t) == [conv |-> "expect_type", arg |-> t]

should_be(c) == [conv |-> "should_be", arg |-> c]

to_tag == [conv |-> "to_tag", arg |-> ""]

\* the convert function of Factory.__init__: def convert(v): return self(v)
Factory_convert(record_type) == [conv |-> "factory", arg |-> record_type]

RECURSIVE Factory_call(_, _)
\* the call self._convert(value)
ApplyConvert(c, v) ==
    CASE c.conv = "expect_type" ->
            IF TypeOf(v) = c.arg THEN Ok(v) ELSE Raise(<<Exc("TypeError", "")>>)
      [] c.conv = "should_be" ->
            IF v = c.arg THEN Ok(v) ELSE Raise(<<Exc("ValueError", "")>>)
      [] c.conv = "to_tag" ->
            IF v \in {"car", "Tag.car"} THEN Ok("Tag.car")
            ELSE Raise(<<Exc("ValueError", "")>>)
      [] c.conv = "factory" -> Factory_call(c.arg, v)
      [] c.conv = "identity" -> Ok(v)
      [] c.conv = "replace_optional" -> Ok(IF v = None THEN c.arg ELSE v)

\* _convert_field without the except error.Error clause: what the code does
\* not do
convert_field_wrapping_all(c, field_name, value) ==
    LET r == ApplyConvert(c, value) IN
    IF r.ok THEN r ELSE RaiseFrom("InvalidFieldError", field_name, r.err)

\* UnaryOperation._convert_field
convert_field(c, field_name, value) ==
    LET r == ApplyConvert(c, value) IN
    IF r.ok THEN r
    ELSE IF r.err[1].type \in FrameworkErrors THEN r
    ELSE RaiseFrom("InvalidFieldError", field_name, r.err)

(***************************************************************************)
(* Operations.                                                             *)
(***************************************************************************)
SimpleConversion(c) == [op |-> "Simple", conv |-> c]

skip_missing == [op |-> "Skip", conv |-> [conv |-> "identity", arg |-> ""]]

provide_missing(d) == [op |-> "Provide", conv |-> [conv |-> "replace_optional", arg |-> d]]

\* Factory(record_type), a SimpleConversion; record_type.get_factory() is it
Factory(record_type) == SimpleConversion(Factory_convert(record_type))

\* subrecord(record_type) for a record type
subrecord(record_type) == Factory(record_type)

Pipe(l, r) == [op |-> "Pipe", left |-> l, right |-> r]

Or(l, r) == [op |-> "Or", left |-> l, right |-> r]

\* values.get(field_name)
MapGet(m, k) == IF k \in DOMAIN m THEN m[k] ELSE None

\* SimpleConversion.prepare_field
SimpleConversion_prepare_field(op, field_name, values) ==
    IF ~IsMapping(values)
    THEN RaiseFrom("InvalidFieldError", field_name, <<Exc("TypeError", "")>>)
    ELSE IF field_name \notin DOMAIN values.m
    THEN RaiseFrom("MissingFieldError", field_name, <<Exc("KeyError", field_name)>>)
    ELSE convert_field(op.conv, field_name, values.m[field_name])

\* _SkipMissing.prepare_field
SkipMissing_prepare_field(op, field_name, values) ==
    IF ~IsMapping(values) THEN Raise(<<Exc("AttributeError", "")>>)
    ELSE LET input_data == MapGet(values.m, field_name) IN
         IF Truthy(input_data) THEN Ok(input_data)
         ELSE convert_field(op.conv, field_name, input_data)

\* a default given for every falsy value: what the code does not do
ProvideMissing_prepare_field_if_falsy(op, field_name, values) ==
    IF ~IsMapping(values) THEN Raise(<<Exc("AttributeError", "")>>)
    ELSE IF Truthy(MapGet(values.m, field_name)) THEN Ok(MapGet(values.m, field_name))
    ELSE Ok(op.conv.arg)

\* _ProvideMissing.prepare_field
ProvideMissing_prepare_field(op, field_name, values) ==
    IF ~IsMapping(values) THEN Raise(<<Exc("AttributeError", "")>>)
    ELSE convert_field(op.conv, field_name, MapGet(values.m, field_name))

RECURSIVE prepare_field(_, _, _)
\* Pipe.prepare_field without the test for None: what the code does not do
Pipe_prepare_field_always_right(op, field_name, values) ==
    The({IF ~left_res.ok THEN left_res
         ELSE IF ~IsMapping(values) THEN Raise(<<Exc("TypeError", "")>>)
         ELSE prepare_field(op.right, field_name,
                  Mapping(Merge(values.m, [k \in {field_name} |-> left_res.val])))
         : left_res \in {prepare_field(op.left, field_name, values)}})

\* Pipe.prepare_field
Pipe_prepare_field(op, field_name, values) ==
    The({IF ~left_res.ok THEN left_res
         ELSE IF left_res.val = None THEN Ok(None)
         ELSE IF ~IsMapping(values) THEN Raise(<<Exc("TypeError", "")>>)
         ELSE prepare_field(op.right, field_name,
                  Mapping(Merge(values.m, [k \in {field_name} |-> left_res.val])))
         : left_res \in {prepare_field(op.left, field_name, values)}})

\* Or.prepare_field falling through to the right operand on the left
\* operand's output: what the code does not do
Or_prepare_field_on_left_output(op, field_name, values) ==
    The({IF ~res.ok
         THEN The({IF r.ok THEN r ELSE Raise(<<r.err[1]>> \o res.err)
                   : r \in {prepare_field(op.right, field_name, values)}})
         ELSE IF res.val = None
         THEN prepare_field(op.right, field_name,
                  Mapping(Merge(values.m, [k \in {field_name} |-> res.val])))
         ELSE res
         : res \in {prepare_field(op.left, field_name, values)}})

\* Or.prepare_field
Or_prepare_field(op, field_name, values) ==
    The({IF ~res.ok
         THEN The({IF r.ok THEN r ELSE Raise(<<r.err[1]>> \o res.err)
                   : r \in {prepare_field(op.right, field_name, values)}})
         ELSE IF res.val = None THEN prepare_field(op.right, field_name, values)
         ELSE res
         : res \in {prepare_field(op.left, field_name, values)}})

\* Operation.prepare_field, dispatched on the class of the operation
prepare_field(op, field_name, values) ==
    CASE op.op = "Simple" -> SimpleConversion_prepare_field(op, field_name, values)
      [] op.op = "Skip" -> SkipMissing_prepare_field(op, field_name, values)
      [] op.op = "Provide" -> ProvideMissing_prepare_field(op, field_name, values)
      [] op.op = "Pipe" -> Pipe_prepare_field(op, field_name, values)
      [] op.op = "Or" -> Or_prepare_field(op, field_name, values)

\* one call of prepare_field: the operation called and the mapping it is given
Called(op, values) == [operation |-> op, values |-> values]

RECURSIVE evaluated(_, _, _)
\* the calls of prepare_field that op.prepare_field(field_name, values)
\* makes, itself included, in the order they are made
evaluated(op, field_name, values) ==
    <<Called(op, values)>> \o
    CASE op.op \in {"Simple", "Skip", "Provide"} -> <<>>
      [] op.op = "Pipe" ->
            The({evaluated(op.left, field_name, values) \o
                 (IF ~left_res.ok \/ left_res.val = None \/ ~IsMapping(values) THEN <<>>
                  ELSE evaluated(op.right, field_name,
                           Mapping(Merge(values.m, [k \in {field_name} |-> left_res.val]))))
                 : left_res \in {prepare_field(op.left, field_name, values)}})
      [] op.op = "Or" ->
            The({evaluated(op.left, field_name, values) \o
                 (IF res.ok /\ res.val # None THEN <<>>
                  ELSE evaluated(op.right, field_name, values))
                 : res \in {prepare_field(op.left, field_name, values)}})

(***************************************************************************)
(* Hooks.                                                                  *)
(***************************************************************************)
\* Target.Init.value and Target.PostInit.value
Targets == {"_hook_init", "_hook_post_init"}

\* the operation of a HooksFactory built by field_hook: None
NoOperation == [op |-> "None"]

\* field_hook(target, hook_name, fn): a HooksFactory of one hook factory
field_hook(target, fn) ==
    [operation |-> NoOperation, factories |-> <<[target |-> target, fn |-> fn]>>]

\* field_invariant(fn)
field_invariant(fn) == field_hook("_hook_post_init", fn)

\* field_aggregate(fn)
field_aggregate(fn) == field_hook("_hook_init", fn)

\* HooksFactory.__rlshift__: operation << hooks
rlshift(operation, hooks) ==
    [operation |-> operation, factories |-> hooks.factories]

\* HooksFactory.extended
extended(self, operation, factories) ==
    [operation |-> operation, factories |-> factories \o self.factories]

\* HooksFactory.__lshift__ once hooks is known to be a HooksFactory
lshift(self, hooks_factory) == extended(hooks_factory, self.operation, self.factories)

\* HooksFactory.gen_hooks(name): every factory's hook, bound to the field name
gen_hooks(hf, name) ==
    [i \in 1..Len(hf.factories) |->
        [target |-> hf.factories[i].target, field |-> name, fn |-> hf.factories[i].fn]]

\* user hook functions fn(instance, name, value) of the declared types:
\*   same_as(f)   def fn(obj, _, v): if v != obj.f: raise ValueError()
\*   copy_from(f) def fn(obj, name, v):
\*                    if v is not None and v != obj.f: raise ValueError()
\*                    return (name, obj.f) if obj.f is not None else None
same_as(f) == [fn |-> "same_as", arg |-> f]

copy_from(f) == [fn |-> "copy_from", arg |-> f]

(***************************************************************************)
(* Declarations of a class body or of the keyword arguments of             *)
(* record_factory / extensible_record_factory.                             *)
(***************************************************************************)
\* name = <an Operation>
DeclOp(operation) == [d |-> "Operation", operation |-> operation]

\* name = <a HooksFactory>
DeclHooks(hf) == [d |-> "HooksFactory", hf |-> hf]

\* name = <a bare type, such as int or str>
DeclType(t) == [d |-> "type", arg |-> t]

\* name = <a bare Tag member>
DeclTag(c) == [d |-> "Tag", arg |-> c]

\* def name(self): ...
DeclMethod == [d |-> "function", arg |-> ""]

\* the names of an ordered list of (name, value) pairs
Keys(items) == {items[i][1] : i \in 1..Len(items)}

\* the keys of an ordered list of pairs, in order
KeySeq(items) == [i \in 1..Len(items) |-> items[i][1]]

\* the value of key k in an ordered list of pairs with unique keys
Lookup(items, k) == items[CHOOSE i \in 1..Len(items) : items[i][1] = k][2]

RECURSIVE DictOf(_)
\* dict(items): a key keeps the place of its first pair and takes the value of its last
DictOf(items) ==
    IF items = <<>> THEN <<>>
    ELSE LET init == DictOf(SubSeq(items, 1, Len(items) - 1))
             last == items[Len(items)]
         IN  IF last[1] \in Keys(init)
             THEN [i \in 1..Len(init) |-> IF init[i][1] = last[1] THEN last ELSE init[i]]
             ELSE Append(init, last)

RECURSIVE split_fields(_)
\* _split_record_namespace(namespace).fields
split_fields(namespace) ==
    IF namespace = <<>> THEN <<>>
    ELSE LET k == Head(namespace)[1]
             v == Head(namespace)[2]
             rest == split_fields(Tail(namespace))
         IN  IF v.d = "Operation" THEN <<<<k, v.operation>>>> \o rest
             ELSE IF v.d = "HooksFactory" /\ v.hf.operation # NoOperation
             THEN <<<<k, v.hf.operation>>>> \o rest
             ELSE rest

RECURSIVE split_other(_)
\* _split_record_namespace(namespace).other
split_other(namespace) ==
    IF namespace = <<>> THEN <<>>
    ELSE LET v == Head(namespace)[2]
             rest == split_other(Tail(namespace))
         IN  IF v.d \in {"Operation", "HooksFactory"} THEN rest
             ELSE <<Head(namespace)>> \o rest

RECURSIVE split_all_hooks(_)
\* every hook of the namespace, in declaration order
split_all_hooks(namespace) ==
    IF namespace = <<>> THEN <<>>
    ELSE LET k == Head(namespace)[1]
             v == Head(namespace)[2]
             rest == split_all_hooks(Tail(namespace))
         IN  IF v.d = "HooksFactory" THEN gen_hooks(v.hf, k) \o rest ELSE rest

\* the hooks of a list that have the given target, in order
SelectTarget(hooks, target) == SelectSeq(hooks, LAMBDA h : h.target = target)

\* _split_record_namespace(namespace).hooks: target -> hooks, only the targets used
split_hooks(namespace) ==
    LET all == split_all_hooks(namespace)
        used == {all[i].target : i \in 1..Len(all)}
    IN  [t \in used |-> SelectTarget(all, t)]

(***************************************************************************)
(* Classes.  The registry maps the name of every defined class to what     *)
(* the interpreter keeps of it.                                            *)
(***************************************************************************)
\* the elements of a sequence
Range(s) == {s[i] : i \in 1..Len(s)}

\* reversed(s)
Reverse(s) == [i \in 1..Len(s) |-> s[Len(s) + 1 - i]]

\* no hooks: a class whose body attaches none sets neither hook attribute
NoHooks == <<>>

\* the classes record.py itself defines: RecordMixin (a plain class without
\* __slots__), RecordBase, and Record and ExtensibleRecord, which RecordMeta.__new__
\* passes to type.__new__ unchanged because their first base is RecordBase
Builtin(name, bases, dict) ==
    [name |-> name, bases |-> bases, meta |-> FALSE, namespace |-> <<>>,
     fields |-> <<>>, other |-> <<>>, hooks |-> NoHooks, dict |-> dict]

BuiltinClasses ==
    [n \in {"RecordMixin", "RecordBase", "Record", "ExtensibleRecord"} |->
        CASE n = "RecordMixin" -> Builtin(n, <<>>, TRUE)
          [] n = "RecordBase" -> Builtin(n, <<>>, FALSE)
          [] n = "Record" -> Builtin(n, <<"RecordBase">>, FALSE)
          [] n = "ExtensibleRecord" -> Builtin(n, <<"RecordBase">>, FALSE)]

RECURSIVE KeepLast(_)
\* a sequence without its repeated elements, each kept at its last place
KeepLast(s) ==
    IF s = <<>> THEN <<>>
    ELSE IF Head(s) \in Range(Tail(s)) THEN KeepLast(Tail(s))
    ELSE <<Head(s)>> \o KeepLast(Tail(s))

RECURSIVE Linear(_, _, _)
\* class c followed by the linearisations of its bases from the i-th on
Linear(cs, c, i) ==
    IF i > Len(cs[c].bases) THEN <<>>
    ELSE (<<cs[c].bases[i]>> \o Linear(cs, cs[c].bases[i], 1)) \o Linear(cs, c, i + 1)

\* kls.mro(), without object and the collections ABCs: for the single chains,
\* the mixins and the (Record, <extensible record>) bases declared here the C3
\* order is the depth-first order with each class kept at its last place
mro(cs, c) == KeepLast(<<c>> \o Linear(cs, c, 1))

\* issubclass(c, base)
issubclass(cs, c, base) == base \in Range(mro(cs, c))

RECURSIVE Chain(_)
\* itertools.chain(*lists)
Chain(lists) == IF lists = <<>> THEN <<>> ELSE Head(lists) \o Chain(Tail(lists))

\* one ancestor's contribution in gen_mro_fields: base._fields.items() of a
\* record, the directly declared operations of a RecordMixin, else nothing
mro_fields_of(cs, base) ==
    IF issubclass(cs, base, "RecordBase") THEN cs[base].fields
    ELSE IF issubclass(cs, base, "RecordMixin") THEN split_fields(cs[base].namespace)
    ELSE <<>>

\* gen_mro_fields(kls), chained: the ancestors of kls from the most base one
gen_mro_fields(cs, kls) ==
    LET order == Reverse(mro(cs, kls)) IN
    Chain([i \in 1..Len(order) |-> mro_fields_of(cs, order[i])])

\* a faulty resolution: the namespace first, so that an ancestor's entry wins
\* over the declaration of the new class
resolve_fields_own_first(cs, bases, namespace) ==
    DictOf(split_fields(namespace)
           \o Chain([i \in 1..Len(bases) |-> gen_mro_fields(cs, bases[i])]))

\* the contract RecordMeta.__new__ resolves: the fields of every base's
\* ancestors, then the fields of the namespace, as one dict
resolve_fields(cs, bases, namespace) ==
    DictOf(Chain([i \in 1..Len(bases) |-> gen_mro_fields(cs, bases[i])])
           \o split_fields(namespace))

\* RecordMeta.__new__(cls, name, bases, namespace): the new class
RecordMeta_new(cs, name, bases, namespace) ==
    [name |-> name, bases |-> bases, meta |-> TRUE, namespace |-> namespace,
     fields |-> resolve_fields(cs, bases, namespace),
     other |-> split_other(namespace),
     hooks |-> split_hooks(namespace),
     dict |-> (bases[1] = "ExtensibleRecord")]

\* type.__new__ for a class that has no record among its bases (a RecordMixin)
type_new(cs, name, bases, namespace) ==
    [name |-> name, bases |-> bases, meta |-> FALSE, namespace |-> namespace,
     fields |-> <<>>, other |-> namespace, hooks |-> NoHooks, dict |-> TRUE]

\* the metaclass of a class statement is RecordMeta when a base is a record
uses_RecordMeta(cs, bases) ==
    \E i \in 1..Len(bases) : issubclass(cs, bases[i], "RecordBase")

\* the registry after the class statement (or record_factory call) d
define(cs, d) ==
    LET new == IF uses_RecordMeta(cs, d.bases)
               THEN RecordMeta_new(cs, d.name, d.bases, d.namespace)
               ELSE type_new(cs, d.name, d.bases, d.namespace)
    IN  [n \in DOMAIN cs \cup {d.name} |-> IF n = d.name THEN new ELSE cs[n]]

\* cls.get_contract()
get_contract(cs, c) == cs[c].fields

\* instances of c carry a __dict__: a class of its mro lists '__dict__' in
\* its __slots__ or has no __slots__
has_dict(cs, c) == \E k \in Range(mro(cs, c)) : cs[k].dict

\* a faulty dispatch: a class behaves as an extensible record as soon as its
\* instances carry a __dict__
record_kind_by_dict(cs, c) == IF has_dict(cs, c) THEN "ExtensibleRecord" ELSE "Record"

\* the class whose _initialize, __setattr__, gen_names and __len__ instances
\* of c use: the first of Record and ExtensibleRecord in the mro
record_kind(cs, c) ==
    LET m == mro(cs, c)
        i == CHOOSE j \in 1..Len(m) :
                 /\ m[j] \in {"Record", "ExtensibleRecord"}
                 /\ \A l \in 1..(j - 1) : m[l] \notin {"Record", "ExtensibleRecord"}
    IN  m[i]

\* getattr(self, target, []): the hook list of the first class of the mro that
\* sets the attribute
hooks_of(cs, c, target) ==
    LET m == mro(cs, c)
        own == {j \in 1..Len(m) : target \in DOMAIN cs[m[j]].hooks}
    IN  IF own = {} THEN <<>>
        ELSE cs[m[CHOOSE j \in own : \A l \in own : j <= l]].hooks[target]

(***************************************************************************)
(* The declared types: the class statements and factory calls of a         *)
(* program that uses the library, after the types of tests/test_adt.py.    *)
(***************************************************************************)
ClassDecl(name, bases, namespace) ==
    [name |-> name, bases |-> bases, namespace |-> namespace]

Declarations ==
    { \* class T(RecordMixin): a = expect_type(int); b = expect_type(str)
      ClassDecl("T", <<"RecordMixin">>,
          << <<"a", DeclOp(SimpleConversion(expect_type("int")))>>,
             <<"b", DeclOp(SimpleConversion(expect_type("str")))>> >>),
      \* class Foo(Record): pass
      ClassDecl("Foo", <<"Record">>, <<>>),
      \* class W(ExtensibleRecord): a = expect_type(int); b = convert(Tag)
      ClassDecl("W", <<"ExtensibleRecord">>,
          << <<"a", DeclOp(SimpleConversion(expect_type("int")))>>,
             <<"b", DeclOp(SimpleConversion(to_tag))>> >>),
      \* class Truck(W): b = should_be(Tag.car)
      \*                 c = expect_type(int) << field_invariant(same_as a)
      ClassDecl("Truck", <<"W">>,
          << <<"b", DeclOp(SimpleConversion(should_be("Tag.car")))>>,
             <<"c", DeclHooks(rlshift(SimpleConversion(expect_type("int")),
                                      field_invariant(same_as("a"))))>> >>),
      \* class PT(Record, Truck): def get_truck_data(self): ...
      ClassDecl("PT", <<"Record", "Truck">>, << <<"get_truck_data", DeclMethod>> >>),
      \* class A(ExtensibleRecord, T): pass
      ClassDecl("A", <<"ExtensibleRecord", "T">>, <<>>),
      \* class B(Record, T): b = convert(Tag)
      \*                     c = skip_missing << field_aggregate(copy_from a)
      ClassDecl("B", <<"Record", "T">>,
          << <<"b", DeclOp(SimpleConversion(to_tag))>>,
             <<"c", DeclHooks(rlshift(skip_missing, field_aggregate(copy_from("a"))))>> >>),
      \* record_factory('Bare', a=int, b=Tag.car)
      ClassDecl("Bare", <<"Record">>,
          << <<"a", DeclType("int")>>, <<"b", DeclTag("Tag.car")>> >>),
      \* class Opt(Record): a = skip_missing >> expect_type(int)
      \*                    b = expect_type(str) | provide_missing('car')
      ClassDecl("Opt", <<"Record">>,
          << <<"a", DeclOp(Pipe(skip_missing, SimpleConversion(expect_type("int"))))>>,
             <<"b", DeclOp(Or(SimpleConversion(expect_type("str")),
                              provide_missing("car")))>> >>),
      \* class Conn(Record): a = expect_type(int)
      ClassDecl("Conn", <<"Record">>,
          << <<"a", DeclOp(SimpleConversion(expect_type("int")))>> >>),
      \* class Host(Record): b = expect_type(str)
      \*                     c = subrecord(Conn)
      ClassDecl("Host", <<"Record">>,
          << <<"b", DeclOp(SimpleConversion(expect_type("str")))>>,
             <<"c", DeclOp(subrecord("Conn"))>> >>),
      \* class Agg(Record):
      \*     a = expect_type(int)
      \*     b = skip_missing << field_aggregate(copy_from a) << field_invariant(same_as a)
      \*     c = skip_missing << field_aggregate(copy_from b) << field_invariant(same_as b)
      ClassDecl("Agg", <<"Record">>,
          << <<"a", DeclOp(SimpleConversion(expect_type("int")))>>,
             <<"b", DeclHooks(lshift(rlshift(skip_missing, field_aggregate(copy_from("a"))),
                                     field_invariant(same_as("a"))))>>,
             <<"c", DeclHooks(lshift(rlshift(skip_missing, field_aggregate(copy_from("b"))),
                                     field_invariant(same_as("b"))))>> >>),
      \* class Van(Truck): x = expect_type(int) << field_invariant(same_as a)
      ClassDecl("Van", <<"Truck">>,
          << <<"x", DeclHooks(rlshift(SimpleConversion(expect_type("int")),
                                      field_invariant(same_as("a"))))>> >>) }

\* the record types whose factories a class body uses as sub-records: they
\* are defined before the class statement runs
subrecords_of(namespace) ==
    {namespace[i][2].operation.conv.arg :
         i \in {j \in 1..Len(namespace) :
                   /\ namespace[j][2].d = "Operation"
                   /\ namespace[j][2].operation.op = "Simple"
                   /\ namespace[j][2].operation.conv.conv = "factory"}}

\* the declaration of the class named n
DeclOf(n) == CHOOSE d \in Declarations : d.name = n

\* the order of the class statements in the program
DeclOrder ==
    <<"T", "Foo", "W", "Truck", "PT", "A", "B", "Bare", "Opt", "Conn", "Host", "Agg",
      "Van">>

RECURSIVE DefineAll(_, _)
\* the registry once the first n class statements have run
DefineAll(cs, n) ==
    IF n = 0 THEN cs
    ELSE CHOOSE new \in {define(prev, DeclOf(DeclOrder[n])) : prev \in {DefineAll(cs, n - 1)}} : TRUE

\* the registry of the loaded program
Program == DefineAll(BuiltinClasses, Len(DeclOrder))

\* the record types of the program: what a caller can construct
RecordTypes == {n \in Range(DeclOrder) : issubclass(Program, n, "RecordBase")}

(***************************************************************************)
(* Instances.                                                              *)
(***************************************************************************)
\* a fresh object of class c, before __init__ has set anything
NewInstance(c) == [cls |-> c, slots |-> EmptyMap, dict |-> <<>>, initialized |-> "unset"]

\* no object: what the caller holds when a constructor raised
NoObj == [cls |-> "None"]

\* what an attribute of the class body evaluates to
ClassAttrValue(decl) ==
    CASE decl.d = "type" -> "<type>"
      [] decl.d = "Tag" -> decl.arg
      [] OTHER -> "<function>"

\* the classes of the mro of c whose body sets the plain attribute name
ClassAttrOwners(cs, c, name) ==
    LET m == mro(cs, c) IN {j \in 1..Len(m) : name \in Keys(cs[m[j]].other)}

\* getattr(inst, name): the slot, then the instance __dict__, then a plain class
\* attribute, then RecordBase.__getattr__ (None for a contract field)
getattr(cs, inst, name) ==
    LET owners == ClassAttrOwners(cs, inst.cls, name)
        m == mro(cs, inst.cls)
    IN  IF name = "_initialized" THEN Ok(inst.initialized)
        ELSE IF name \in DOMAIN inst.slots THEN Ok(inst.slots[name])
        ELSE IF name \in Keys(inst.dict) THEN Ok(Lookup(inst.dict, name))
        ELSE IF owners # {}
        THEN Ok(ClassAttrValue(
                 Lookup(cs[m[CHOOSE j \in owners : \A l \in owners : j <= l]].other, name)))
        ELSE IF name \in Keys(cs[inst.cls].fields) THEN Ok(None)
        ELSE Raise(<<Exc("AttributeError", name)>>)

\* an instance as the result of a statement that completed
Done(inst) == [ok |-> TRUE, inst |-> inst, err |-> <<>>]

\* an instance as it was when a statement raised e
Failed(inst, e) == [ok |-> FALSE, inst |-> inst, err |-> e]

\* object.__setattr__(inst, name, value)
object_setattr(cs, inst, name, value) ==
    IF name = "_initialized" THEN Done([inst EXCEPT !.initialized = value])
    ELSE IF name \in Keys(cs[inst.cls].fields)
    THEN Done([inst EXCEPT !.slots = Merge(inst.slots, [k \in {name} |-> value])])
    ELSE IF has_dict(cs, inst.cls)
    THEN Done([inst EXCEPT !.dict = DictOf(inst.dict \o <<<<name, value>>>>)])
    ELSE Failed(inst, <<Exc("AttributeError", name)>>)

\* a faulty __setattr__: only the contract fields of a sealed instance are guarded
setattr_fields_only(cs, inst, name, value) ==
    IF name \in Keys(cs[inst.cls].fields) /\ Truthy(inst.initialized)
    THEN Failed(inst, <<Exc("AccessError", name)>>)
    ELSE object_setattr(cs, inst, name, value)

\* Record.__setattr__ and ExtensibleRecord.__setattr__
setattr(cs, inst, name, value) ==
    IF name # "_initialized" /\ Truthy(inst.initialized)
    THEN Failed(inst, <<Exc("AccessError",
                            IF record_kind(cs, inst.cls) = "Record" THEN name ELSE "")>>)
    ELSE object_setattr(cs, inst, name, value)

\* Record.gen_names and ExtensibleRecord.gen_names
gen_names(cs, inst) ==
    IF record_kind(cs, inst.cls) = "Record" THEN KeySeq(cs[inst.cls].fields)
    ELSE KeySeq(cs[inst.cls].fields) \o KeySeq(inst.dict)

\* RecordBase.gen_fields: the (name, value) pairs of gen_names
gen_fields(cs, inst) ==
    LET names == gen_names(cs, inst) IN
    [i \in 1..Len(names) |-> <<names[i], getattr(cs, inst, names[i]).val>>]

\* dict(pairs) as a mapping
AsMap(pairs) == [k \in Keys(pairs) |-> Lookup(DictOf(pairs), k)]

\* record_as_basic_type
record_as_basic_type(cs, inst) ==
    LET f == gen_fields(cs, inst) IN
    AsMap([i \in 1..Len(f) |-> <<f[i][1], as_basic_type(f[i][2])>>])

(***************************************************************************)
(* Construction.                                                           *)
(***************************************************************************)
RECURSIVE initialize_fields(_, _, _, _)
\* the loop of _initialize over gen_fields_from_input: each contract field's
\* operation in contract order, its result set unless it is None
initialize_fields(cs, fields, values, inst) ==
    IF fields = <<>> THEN Done(inst)
    ELSE LET name == Head(fields)[1] IN
         The({IF ~res.ok
              THEN IF IsFieldError(res.err[1].type) THEN Failed(inst, res.err)
                   ELSE Failed(inst, <<ExcInfo("InvalidFieldError", name, "input")>> \o res.err)
              ELSE IF res.val = None THEN initialize_fields(cs, Tail(fields), values, inst)
              ELSE The({IF ~set.ok THEN set
                        ELSE initialize_fields(cs, Tail(fields), values, set.inst)
                        : set \in {setattr(cs, inst, name, res.val)}})
              : res \in {prepare_field(Head(fields)[2], name, values)}})

RECURSIVE copy_other_keys(_, _, _, _)
\* the second loop of ExtensibleRecord._initialize, over other_keys in the
\* order the set yields them
copy_other_keys(cs, order, values, inst) ==
    IF order = <<>> THEN Done(inst)
    ELSE The({IF ~set.ok THEN set
              ELSE copy_other_keys(cs, Tail(order), values, set.inst)
              : set \in {setattr(cs, inst, Head(order), values.m[Head(order)])}})

\* values.keys() - self._fields.keys()
other_keys(cs, c, values) == DOMAIN values.m \ Keys(cs[c].fields)

\* Record._initialize and ExtensibleRecord._initialize
initialize(cs, values, order, inst) ==
    The({IF record_kind(cs, inst.cls) = "Record" \/ ~set.ok THEN set
         ELSE IF ~IsMapping(values) THEN Failed(set.inst, <<Exc("AttributeError", "keys")>>)
         ELSE copy_other_keys(cs, order, values, set.inst)
         : set \in {initialize_fields(cs, cs[inst.cls].fields, values, inst)}})

\* the user function of a hook, called as fn(obj, field_name, value): what it
\* returns ([set |-> FALSE] for None, else the (name, value) pair) or raises
hook_fn(cs, fn, inst, field_name, value) ==
    \* ref is obj.f, read once
    The({
    IF ~ref.ok THEN Raise(ref.err)
    ELSE IF fn.fn = "same_as"
    THEN IF value # ref.val THEN Raise(<<Exc("ValueError", "")>>)
         ELSE Ok([set |-> FALSE])
    ELSE IF value # None /\ value # ref.val THEN Raise(<<Exc("ValueError", "")>>)
    ELSE IF ref.val = None THEN Ok([set |-> FALSE])
         ELSE Ok([set |-> TRUE, name |-> field_name, value |-> ref.val])
    : ref \in {getattr(cs, inst, fn.arg)}})

\* the wrapper field_hook builds: fn(obj, field_name, getattr(obj, field_name, None)),
\* any exception raised as InvalidFieldError from it
call_hook(cs, hook, inst) ==
    The({IF res.ok THEN res
         ELSE RaiseFrom("InvalidFieldError", hook.field, res.err)
         : res \in {hook_fn(cs, hook.fn, inst, hook.field, value)
                       : value \in {The({IF cur.ok THEN cur.val ELSE None
                                          : cur \in {getattr(cs, inst, hook.field)}})}}})

RECURSIVE run_init_hooks(_, _, _)
\* the loop over the Init hooks: a truthy result (name, value) is set
run_init_hooks(cs, hooks, inst) ==
    IF hooks = <<>> THEN Done(inst)
    ELSE The({IF ~res.ok THEN Failed(inst, res.err)
              ELSE IF ~res.val.set THEN run_init_hooks(cs, Tail(hooks), inst)
              ELSE The({IF ~set.ok THEN set
                        ELSE run_init_hooks(cs, Tail(hooks), set.inst)
                        : set \in {setattr(cs, inst, res.val.name, res.val.value)}})
              : res \in {call_hook(cs, Head(hooks), inst)}})

\* a faulty PostInit loop: the hooks are not run
run_post_init_hooks_skipped(cs, hooks, inst) == Done(inst)

RECURSIVE run_post_init_hooks(_, _, _)
\* the loop over the PostInit hooks: their results are dropped
run_post_init_hooks(cs, hooks, inst) ==
    IF hooks = <<>> THEN Done(inst)
    ELSE The({IF ~res.ok THEN Failed(inst, res.err)
              ELSE run_post_init_hooks(cs, Tail(hooks), inst)
              : res \in {call_hook(cs, Head(hooks), inst)}})

\* the first try block of RecordBase.__init__
init_phase(cs, c, values, order) ==
    LET start == object_setattr(cs, NewInstance(c), "_initialized", "False").inst IN
    The({IF ~hooks.ok THEN hooks
         ELSE setattr(cs, hooks.inst, "_initialized", "True")
         : hooks \in {IF fields.ok
                      THEN run_init_hooks(cs, hooks_of(cs, c, "_hook_init"), fields.inst)
                      ELSE fields
                      : fields \in {initialize(cs, values, order, start)}}})

\* the head of RecordBase.__init__: the effective input, or the TypeError of
\* {**values, **overrides} for a truthy values that is no mapping
merge_input(values, overrides) ==
    IF ~ArgTruthy(values) THEN Ok(Mapping(overrides))
    ELSE IF DOMAIN overrides = {} THEN Ok(values)
    ELSE IF ~IsMapping(values) THEN Raise(<<Exc("TypeError", "")>>)
    ELSE Ok(Mapping(Merge(values.m, overrides)))

\* RecordBase.__init__(self, values, **overrides): the instance, or the
\* exception the caller sees; order is the iteration order of other_keys
RecordBase_init(cs, c, values, overrides, order) ==
    LET merged == merge_input(values, overrides) IN
    IF ~merged.ok THEN Failed(NewInstance(c), merged.err)
    ELSE The({IF ~first.ok
              THEN Failed(first.inst, <<ExcInfo("RecordError", c, "init")>> \o first.err)
              ELSE The({IF ~post.ok
                        THEN Failed(post.inst,
                                    <<ExcInfo("RecordError", c, "post-init")>> \o post.err)
                        ELSE post
                        : post \in {run_post_init_hooks(
                                        cs, hooks_of(cs, c, "_hook_post_init"), first.inst)}})
              : first \in {init_phase(cs, c, merged.val, order)}})

(***************************************************************************)
(* Records as values: a field of one record that holds another.            *)
(***************************************************************************)
\* the record instance an instance value is
instance_of(v) ==
    CASE v = "Conn(a=1)" ->
            [cls |-> "Conn", slots |-> [k \in {"a"} |-> "1"], dict |-> <<>>,
             initialized |-> "True"]

\* the value that is the instance inst
instance_value(inst) == CHOOSE v \in InstanceValues : instance_of(v) = inst

\* a value as the positional argument of a constructor: a dict and a record
\* are mappings, any other truthy value is none
as_argument(v) ==
    IF v \in Dicts THEN Mapping(dict_of(v))
    ELSE IF v \in InstanceValues
    THEN Mapping(AsMap(gen_fields(Program, instance_of(v))))
    ELSE IF Truthy(v) THEN NonMapping
    ELSE NoneArg

\* a factory that checks the value and hands the value itself back: what the
\* code does not do
Factory_call_keeping_value(record_type, v) ==
    The({IF r.ok THEN Ok(v) ELSE Raise(r.err)
         : r \in {RecordBase_init(Program, record_type, as_argument(v), EmptyMap, <<>>)}})

\* Factory.__call__(v): self._record_type(v), the class as the program defined it
Factory_call(record_type, v) ==
    The({IF r.ok THEN Ok(instance_value(r.inst)) ELSE Raise(r.err)
         : r \in {RecordBase_init(Program, record_type, as_argument(v), EmptyMap, <<>>)}})

\* record_as_basic_type of an instance that is a field value
instance_as_basic_type(v) == dict_value(record_as_basic_type(Program, instance_of(v)))

(***************************************************************************)
(* Equality.  An operand is a record instance or a plain mapping.          *)
(***************************************************************************)
\* the operand that is the record instance inst
Instance(inst) == [kind |-> "instance", inst |-> inst]

\* the default of other.get(name, Ellipsis)
Ellipsis == "Ellipsis"

\* isinstance(other, cls)
isinstance(cs, other, cls) ==
    other.kind = "instance" /\ issubclass(cs, other.inst.cls, cls)

\* other.keys(): the keys of a dict, the gen_names of a record (RecordBase.__iter__)
keys(cs, other) ==
    IF other.kind = "instance" THEN Range(gen_names(cs, other.inst)) ELSE DOMAIN other.m

\* other.get(name, Ellipsis): for a record, Mapping.get over __getitem__, which
\* is getattr with AttributeError turned into KeyError
get(cs, other, name) ==
    IF other.kind = "instance"
    THEN LET v == getattr(cs, other.inst, name) IN IF v.ok THEN v.val ELSE Ellipsis
    ELSE IF name \in DOMAIN other.m THEN other.m[name] ELSE Ellipsis

\* the first branch of __eq__: all(a == b for a, b in zip(gen_fields, gen_fields))
eq_same_type(cs, self, other) ==
    LET mine == gen_fields(cs, self)
        theirs == gen_fields(cs, other.inst)
    IN  \A i \in 1..Len(mine) : i <= Len(theirs) => mine[i] = theirs[i]

\* a faulty second branch: the keys of other need only include the names
eq_mapping_subset(cs, self, other) ==
    LET mine == gen_fields(cs, self) IN
    /\ Range(gen_names(cs, self)) \subseteq keys(cs, other)
    /\ \A i \in 1..Len(mine) : get(cs, other, mine[i][1]) = mine[i][2]

\* the second branch of __eq__: the key sets, then each field against get
eq_mapping(cs, self, other) ==
    LET mine == gen_fields(cs, self) IN
    /\ Range(gen_names(cs, self)) = keys(cs, other)
    /\ \A i \in 1..Len(mine) : get(cs, other, mine[i][1]) = mine[i][2]

\* RecordBase.__eq__(self, other)
RecordBase_eq(cs, self, other) ==
    IF isinstance(cs, other, self.cls) THEN eq_same_type(cs, self, other)
    ELSE eq_mapping(cs, self, other)

\* a faulty comparison: the left operand's __eq__ is asked whatever the
\* classes of the operands
richcompare_eq_left_first(cs, left, right) == RecordBase_eq(cs, left, right)

\* the expression left == right for a record left: the interpreter asks the
\* right operand first when its class is a proper subclass of the left one's
richcompare_eq(cs, left, right) ==
    IF right.kind = "instance" /\ right.inst.cls # left.cls
           /\ issubclass(cs, right.inst.cls, left.cls)
    THEN RecordBase_eq(cs, right.inst, Instance(left))
    ELSE RecordBase_eq(cs, left, right)

(***************************************************************************)
(* Inputs of the model.                                                    *)
(***************************************************************************)
\* the keys of input mappings: the field names, an unknown key, and a key
\* named like the service slot
InputKeys == {"a", "b", "c", "x", "_initialized"}

\* the values an input mapping gives a key
InputValues(k) ==
    CASE k = "a" -> {"1", "2", "car"}
      [] k = "b" -> {"car", "Tag.car"}
      [] k = "c" -> {"1", "2", "{a: 1}", "{a: car}", "{a: 1, x: 1}"}
      [] k = "x" -> {"1", "Tag.car"}
      [] k = "_initialized" -> {None, "1"}

\* the keyword overrides of a call, and their values
KeywordKeys == {"a", "x"}

KeywordValues == {"2"}

\* the mappings over at most n of the given keys
InputMaps(n) ==
    UNION {{m \in [S -> Values] : \A k \in S : m[k] \in InputValues(k)} :
              S \in {T \in SUBSET InputKeys : Cardinality(T) <= n}}

\* the mappings the operands of a comparison are built from: flat ones
OperandMaps == {m \in InputMaps(MaxInputKeys) : \A k \in DOMAIN m : m[k] \notin Dicts}

\* the positional arguments
PositionalArgs == {NoneArg, NonMapping} \cup {Mapping(m) : m \in InputMaps(MaxInputKeys)}

\* the keyword arguments
KeywordArgs ==
    UNION {[S -> KeywordValues] :
              S \in {T \in SUBSET KeywordKeys : Cardinality(T) <= MaxOverrides}}

\* the orders in which a set can be iterated
Orders(S) ==
    {s \in [1..Cardinality(S) -> S] : \A i, j \in 1..Cardinality(S) : s[i] = s[j] => i = j}

\* the orders in which _initialize of class c may meet the other keys of the
\* effective input: any order for an extensible record, no loop otherwise
OtherKeyOrders(cs, c, values, overrides) ==
    LET merged == merge_input(values, overrides) IN
    IF merged.ok /\ IsMapping(merged.val) /\ record_kind(cs, c) = "ExtensibleRecord"
    THEN Orders(other_keys(cs, c, merged.val))
    ELSE {<<>>}

\* the attribute writes a caller tries on an instance: a contract field, an
\* undeclared name, and the service slot (kept truthy, or made falsy)
Writes == {<<"a", "2">>, <<"x", "2">>, <<"_initialized", "2">>, <<"_initialized", "False">>}

(***************************************************************************)
(* State: classes is the registry of defined classes; call is the last     *)
(* operation and its arguments; obj is the instance the caller holds       *)
(* (NoObj before a constructor returned and after one raised); rhs is the  *)
(* right operand of a comparison; writes counts the attribute writes       *)
(* tried on obj; outcome is what the last operation returned or raised;     *)
(* heap holds the HooksFactory objects created so far, an object's place   *)
(* being its identity; pc is the place a running constructor has reached.  *)
(***************************************************************************)
NoCall == [op |-> "none"]

NoOutcome == [op |-> "none"]

\* no constructor is running
Idle == [phase |-> "idle"]

\* the state once record.py is imported: only its own classes exist
InitDefine ==
    /\ classes = BuiltinClasses
    /\ call = NoCall
    /\ obj = NoObj
    /\ rhs = NoObj
    /\ writes = 0
    /\ outcome = NoOutcome
    /\ heap = <<>>
    /\ pc = Idle

\* the state once the program's class statements have run
Init ==
    /\ classes = Program
    /\ call = NoCall
    /\ obj = NoObj
    /\ rhs = NoObj
    /\ writes = 0
    /\ outcome = NoOutcome
    /\ heap = <<>>
    /\ pc = Idle

\* a class statement or record_factory call: RecordMeta.__new__ (type.__new__
\* for a mixin) adds the class to the registry
DefineClass(d) ==
    /\ d.name \notin DOMAIN classes
    /\ Range(d.bases) \subseteq DOMAIN classes
    /\ subrecords_of(d.namespace) \subseteq DOMAIN classes
    /\ classes' = define(classes, d)
    /\ call' = [op |-> "define", cls |-> d.name]
    /\ outcome' = [op |-> "define", ok |-> TRUE]
    /\ UNCHANGED <<pc, heap, obj, rhs, writes>>

\* the call c(values, **overrides) of a caller that holds no instance yet
Construct(c, values, overrides, order) ==
    /\ call = NoCall
    /\ \E r \in {RecordBase_init(classes, c, values, overrides, order)} :
           /\ call' = [op |-> "construct", cls |-> c, values |-> values,
                       overrides |-> overrides, order |-> order]
           /\ obj' = IF r.ok THEN r.inst ELSE NoObj
           /\ outcome' = [op |-> "construct", ok |-> r.ok, err |-> r.err, built |-> r.inst]
           /\ UNCHANGED <<pc, heap, classes, rhs, writes>>

\* the statement obj.name = value (setattr(obj, name, value)) of the caller
SetAttr(name, value) ==
    /\ obj # NoObj
    /\ writes < MaxWrites
    /\ \E r \in {setattr(classes, obj, name, value)} :
           /\ call' = [op |-> "setattr", name |-> name, value |-> value, before |-> obj]
           /\ obj' = r.inst
           /\ writes' = writes + 1
           /\ outcome' = [op |-> "setattr", ok |-> r.ok, err |-> r.err, built |-> r.inst]
           /\ UNCHANGED <<pc, heap, classes, rhs>>

\* the call c(values) of a caller that builds the left operand of a comparison
BuildLeft(c, values, order) ==
    /\ call = NoCall
    /\ \E r \in {RecordBase_init(classes, c, values, EmptyMap, order)} :
           /\ r.ok
           /\ call' = [op |-> "left"]
           /\ obj' = r.inst
           /\ outcome' = [op |-> "left", ok |-> TRUE]
           /\ UNCHANGED <<pc, heap, classes, rhs, writes>>

\* the call c(values) that builds the right operand
BuildRight(c, values, order) ==
    /\ call.op = "left"
    /\ \E r \in {RecordBase_init(classes, c, values, EmptyMap, order)} :
           /\ r.ok
           /\ call' = [op |-> "right"]
           /\ rhs' = Instance(r.inst)
           /\ outcome' = [op |-> "right", ok |-> TRUE]
           /\ UNCHANGED <<pc, heap, classes, obj, writes>>

\* a dict literal as the right operand
TakeMapping(m) ==
    /\ call.op = "left"
    /\ call' = [op |-> "right"]
    /\ rhs' = Mapping(m)
    /\ outcome' = [op |-> "right", ok |-> TRUE]
    /\ UNCHANGED <<pc, heap, classes, obj, writes>>

\* the expression obj == rhs
Compare ==
    /\ call.op = "right"
    /\ call' = [op |-> "eq"]
    /\ outcome' = [op |-> "eq", result |-> richcompare_eq(classes, obj, rhs)]
    /\ UNCHANGED <<pc, heap, classes, obj, rhs, writes>>

NextDefine == \E d \in Declarations : DefineClass(d)

NextConstruct ==
    /\ call = NoCall
    /\ \E c \in RecordTypes, values \in PositionalArgs, overrides \in KeywordArgs :
           \E order \in OtherKeyOrders(classes, c, values, overrides) :
               Construct(c, values, overrides, order)

NextSetAttr == \E w \in Writes : SetAttr(w[1], w[2])

Next == NextConstruct \/ NextSetAttr

\* one construction call and the life of the instance it returns
Spec == Init /\ [][Next]_vars

NextBuildLeft ==
    /\ call = NoCall
    /\ \E c \in RecordTypes, m \in OperandMaps :
           \E order \in OtherKeyOrders(classes, c, Mapping(m), EmptyMap) :
               BuildLeft(c, Mapping(m), order)

NextBuildRight ==
    /\ call.op = "left"
    /\ \E c \in RecordTypes, m \in OperandMaps :
           \E order \in OtherKeyOrders(classes, c, Mapping(m), EmptyMap) :
               BuildRight(c, Mapping(m), order)

NextTakeMapping ==
    /\ call.op = "left"
    /\ \E m \in OperandMaps : TakeMapping(m)

NextEq == NextBuildLeft \/ NextBuildRight \/ NextTakeMapping \/ Compare

\* the class statements of the program, in any order their bases allow
SpecDefine == InitDefine /\ [][NextDefine]_vars

\* two operands and their comparison
SpecEq == Init /\ [][NextEq]_vars

(***************************************************************************)
(* Operations as pure functions: one call of prepare_field on an operation *)
(* built from leaf operations with >> and |.                               *)
(***************************************************************************)
\* the leaf operations: a type guard, a predicate guard, an enum conversion,
\* skip_missing, two defaults and the factory of a record type
Leaves ==
    {SimpleConversion(expect_type("int")), SimpleConversion(should_be("car")),
     SimpleConversion(to_tag), skip_missing, provide_missing("car"),
     provide_missing("0"), Factory("Conn")}

RECURSIVE OperationsOf(_)
\* the operations that combine exactly n leaves
OperationsOf(n) ==
    IF n = 1 THEN Leaves
    ELSE UNION {{Pipe(l, r) : l \in OperationsOf(i), r \in OperationsOf(n - i)} \cup
                {Or(l, r) : l \in OperationsOf(i), r \in OperationsOf(n - i)} :
                    i \in 1..(n - 1)}

Operations == UNION {OperationsOf(n) : n \in 1..MaxOperands}

\* the field names prepare_field is called with
FieldNames == {"a", "b"}

\* the values an input mapping of prepare_field gives a key
FieldValues(k) ==
    IF k = "a" THEN {None, "0", "", "1", "car", "{a: 1}", "{a: car}"} ELSE {"1"}

\* the input mappings of prepare_field
FieldInputs ==
    UNION {{m \in [S -> Values] : \A k \in S : m[k] \in FieldValues(k)} :
              S \in SUBSET FieldNames}

\* the call op.prepare_field(field_name, values)
PrepareField(op, field_name, values) ==
    /\ call = NoCall
    /\ call' = [op |-> "prepare_field", operation |-> op, field_name |-> field_name,
                values |-> values]
    /\ outcome' = [op |-> "prepare_field",
                   result |-> prepare_field(op, field_name, values),
                   calls |-> evaluated(op, field_name, values)]
    /\ UNCHANGED <<pc, heap, classes, obj, rhs, writes>>

NextPrepareField ==
    \E op \in Operations, field_name \in FieldNames, m \in FieldInputs :
        PrepareField(op, field_name, Mapping(m))

\* one call of prepare_field
SpecOp == Init /\ [][NextPrepareField]_vars

(***************************************************************************)
(* Hook factories as objects: a script of field_hook calls and << , >> and *)
(* | expressions over operations and the HooksFactory objects it created.  *)
(* An exception ends the script.                                           *)
(***************************************************************************)
\* a reference to the i-th HooksFactory object created
Ref(i) == [op |-> "HooksFactory", ref |-> i]

\* isinstance(v, HooksFactory)
IsHooksFactory(v) == v.op = "HooksFactory"

\* the expression left << right over the objects of h: __lshift__ of a
\* HooksFactory on the left, else __rlshift__ of one on the right, else the
\* TypeError of an unsupported operand
lshift_expression(h, left, right) ==
    IF IsHooksFactory(left)
    THEN IF IsHooksFactory(right) THEN Ok(lshift(h[left.ref], h[right.ref]))
         ELSE Raise(<<Exc("TypeError", "")>>)
    ELSE IF IsHooksFactory(right) THEN Ok(rlshift(left, h[right.ref]))
         ELSE Raise(<<Exc("TypeError", "")>>)

\* default_conversion: an Operation is itself, a HooksFactory is rejected
default_conversion(v) ==
    IF IsHooksFactory(v) THEN Raise(<<Exc("ValueError", "")>>) ELSE Ok(v)

\* the expression left >> right: Factory.__rshift__ calls itself through
\* convert(self) >> other, _SkipMissing.__rshift__ builds the Pipe as it is,
\* CombineMixin.__rshift__ converts the right operand first
rshift_expression(left, right) ==
    IF IsHooksFactory(left) THEN Raise(<<Exc("TypeError", "")>>)
    ELSE IF left.op = "Simple" /\ left.conv.conv = "factory"
    THEN Raise(<<Exc("RecursionError", "")>>)
    ELSE IF left.op = "Skip" THEN Ok(Pipe(left, right))
    ELSE IF default_conversion(right).ok THEN Ok(Pipe(left, right))
    ELSE default_conversion(right)

\* the expression left | right: Factory.__or__ calls itself, CombineMixin.__or__
\* converts the right operand first
or_expression(left, right) ==
    IF IsHooksFactory(left) THEN Raise(<<Exc("TypeError", "")>>)
    ELSE IF left.op = "Simple" /\ left.conv.conv = "factory"
    THEN Raise(<<Exc("RecursionError", "")>>)
    ELSE IF default_conversion(right).ok THEN Ok(Or(left, right))
    ELSE default_conversion(right)

\* the operations and the hook functions the script uses
ScriptOperations == {SimpleConversion(expect_type("int")), skip_missing, Factory("Conn")}

ScriptHooks == {field_invariant(same_as("a")), field_aggregate(copy_from("a"))}

\* the operands of an expression: an operation or an object created before
Operands == ScriptOperations \cup {Ref(i) : i \in 1..Len(heap)}

\* the script goes on after a statement that created an object
Running == call.op \in {"none", "field_hook", "lshift"} /\ (call.op # "none" => outcome.ok)

\* h = field_invariant(fn) or h = field_aggregate(fn)
FieldHook(hf) ==
    /\ Running
    /\ Len(heap) < MaxFactories
    /\ heap' = Append(heap, hf)
    /\ call' = [op |-> "field_hook", before |-> heap]
    /\ outcome' = [op |-> "field_hook", ok |-> TRUE, err |-> <<>>,
                   result |-> Ref(Len(heap) + 1)]
    /\ UNCHANGED <<pc, classes, obj, rhs, writes>>

\* h = left << right
LShift(left, right) ==
    /\ Running
    /\ Len(heap) < MaxFactories
    /\ \E r \in {lshift_expression(heap, left, right)} :
           /\ heap' = IF r.ok THEN Append(heap, r.val) ELSE heap
           /\ call' = [op |-> "lshift", left |-> left, right |-> right, before |-> heap]
           /\ outcome' = [op |-> "lshift", ok |-> r.ok, err |-> r.err,
                          result |-> IF r.ok THEN Ref(Len(heap) + 1) ELSE NoOperation]
           /\ UNCHANGED <<pc, classes, obj, rhs, writes>>

\* left >> right
RShift(left, right) ==
    /\ Running
    /\ \E r \in {rshift_expression(left, right)} :
           /\ call' = [op |-> "rshift", left |-> left, right |-> right, before |-> heap]
           /\ outcome' = [op |-> "rshift", ok |-> r.ok, err |-> r.err,
                          result |-> IF r.ok THEN r.val ELSE NoOperation]
           /\ UNCHANGED <<pc, heap, classes, obj, rhs, writes>>

\* left | right
BitOr(left, right) ==
    /\ Running
    /\ \E r \in {or_expression(left, right)} :
           /\ call' = [op |-> "or", left |-> left, right |-> right, before |-> heap]
           /\ outcome' = [op |-> "or", ok |-> r.ok, err |-> r.err,
                          result |-> IF r.ok THEN r.val ELSE NoOperation]
           /\ UNCHANGED <<pc, heap, classes, obj, rhs, writes>>

NextHooks ==
    \/ \E hf \in ScriptHooks : FieldHook(hf)
    \/ \E left \in Operands, right \in Operands : LShift(left, right)
    \/ \E left \in Operands, right \in Operands : RShift(left, right)
    \/ \E left \in Operands, right \in Operands : BitOr(left, right)

\* a script over operations and hook factories
SpecHooks == Init /\ [][NextHooks]_vars

(***************************************************************************)
(* One construction, statement by statement: pc holds the phase of         *)
(* RecordBase.__init__ that is running, what is left to do in that phase,  *)
(* the effective input, and the log of the steps taken with the instance   *)
(* each step met.  obj is self while the constructor runs.                 *)
(***************************************************************************)
\* the statements of RecordBase.__init__ with the seal before the Init hooks: what the code
\* does not do
Phases_seal_first == <<"fields", "other", "seal", "init_hooks", "post_hooks">>

\* the statements of RecordBase.__init__ after the merge, in program order:
\* the two loops of _initialize, the loop over the Init hooks, the
\* assignment _initialized = True, the loop over the PostInit hooks
Phases == <<"fields", "other", "init_hooks", "seal", "post_hooks">>

\* what a phase has to do for class c on the effective input
Todo(cs, c, phase, values, order) ==
    CASE phase = "fields" -> cs[c].fields
      [] phase = "other" ->
            IF record_kind(cs, c) = "Record" THEN <<>> ELSE <<order>>
      [] phase = "init_hooks" -> hooks_of(cs, c, "_hook_init")
      [] phase = "seal" -> <<"_initialized">>
      [] phase = "post_hooks" -> hooks_of(cs, c, "_hook_post_init")

\* the try block a phase runs in: the info of the RecordError it raises
TryBlock(phase) == IF phase = "post_hooks" THEN "post-init" ELSE "init"

\* one step of a phase on self: the instance after it, or what it raises
Step(cs, phase, item, values, inst) ==
    CASE phase = "fields" -> initialize_fields(cs, <<item>>, values, inst)
      [] phase = "other" ->
            IF ~IsMapping(values) THEN Failed(inst, <<Exc("AttributeError", "keys")>>)
            ELSE copy_other_keys(cs, item, values, inst)
      [] phase = "init_hooks" -> run_init_hooks(cs, <<item>>, inst)
      [] phase = "seal" -> setattr(cs, inst, item, "True")
      [] phase = "post_hooks" -> run_post_init_hooks(cs, <<item>>, inst)

\* the step as the log keeps it
Event(phase, item, inst) == [phase |-> phase, item |-> item, seen |-> inst]

\* the call c(values, **overrides): the merge and _initialized = False
Begin(c, values, overrides, order) ==
    /\ pc = Idle
    /\ call = NoCall
    /\ call' = [op |-> "construct", cls |-> c, values |-> values,
                overrides |-> overrides, order |-> order]
    /\ \E merged \in {merge_input(values, overrides)} :
           IF merged.ok
           THEN /\ obj' = object_setattr(classes, NewInstance(c), "_initialized", "False").inst
                /\ pc' = [phase |-> Phases[1], at |-> 1, input |-> merged.val, log |-> <<>>,
                          todo |-> Todo(classes, c, Phases[1], merged.val, order)]
                /\ outcome' = NoOutcome
           ELSE /\ obj' = NoObj
                /\ pc' = [phase |-> "raised", at |-> 0, input |-> values, log |-> <<>>,
                          todo |-> <<>>]
                /\ outcome' = [op |-> "construct", ok |-> FALSE, err |-> merged.err,
                               built |-> NewInstance(c)]
    /\ UNCHANGED <<classes, rhs, writes, heap>>

\* the next statement of the running phase; an exception leaves the
\* constructor as RecordError
Run ==
    /\ pc.phase \in Range(Phases)
    /\ pc.todo # <<>>
    /\ \E r \in {Step(classes, pc.phase, Head(pc.todo), pc.input, obj)} :
           IF r.ok
           THEN /\ obj' = r.inst
                /\ pc' = [pc EXCEPT !.todo = Tail(pc.todo),
                                    !.log = Append(pc.log, Event(pc.phase, Head(pc.todo), obj))]
                /\ UNCHANGED outcome
           ELSE /\ obj' = NoObj
                /\ pc' = [pc EXCEPT !.phase = "raised", !.todo = <<>>,
                                    !.log = Append(pc.log, Event(pc.phase, Head(pc.todo), obj))]
                /\ outcome' = [op |-> "construct", ok |-> FALSE, built |-> r.inst,
                               err |-> <<ExcInfo("RecordError", call.cls, TryBlock(pc.phase))>>
                                           \o r.err]
    /\ UNCHANGED <<classes, call, rhs, writes, heap>>

\* the running phase has nothing left: the next phase starts, or the
\* constructor returns
Advance ==
    /\ pc.phase \in Range(Phases)
    /\ pc.todo = <<>>
    /\ IF pc.at < Len(Phases)
       THEN /\ pc' = [pc EXCEPT !.phase = Phases[pc.at + 1], !.at = pc.at + 1,
                                !.todo = Todo(classes, call.cls, Phases[pc.at + 1],
                                              pc.input, call.order)]
            /\ UNCHANGED outcome
       ELSE /\ pc' = [pc EXCEPT !.phase = "returned"]
            /\ outcome' = [op |-> "construct", ok |-> TRUE, err |-> <<>>, built |-> obj]
    /\ UNCHANGED <<classes, call, obj, rhs, writes, heap>>

NextPhases ==
    \/ /\ pc = Idle
       /\ \E c \in RecordTypes, values \in PositionalArgs, overrides \in KeywordArgs :
              \E order \in OtherKeyOrders(classes, c, values, overrides) :
                  Begin(c, values, overrides, order)
    \/ Run
    \/ Advance

\* one construction call, statement by statement
SpecPhases == Init /\ [][NextPhases]_vars

(***************************************************************************)
(* Properties of construction and of the life of an instance, under Spec.  *)
(***************************************************************************)
\* the effective input of the construction call: values under the overrides
Effective == merge_input(call.values, call.overrides)

\* the contract of the class of the construction call
CallContract == get_contract(classes, call.cls)

\* the result of the operation of the i-th contract field on the effective input
FieldResult(i) == prepare_field(CallContract[i][2], CallContract[i][1], Effective.val)

\* every operation of the contract is a plain required conversion
AllRequired(c) ==
    /\ get_contract(classes, c) # <<>>
    /\ \A i \in 1..Len(get_contract(classes, c)) : get_contract(classes, c)[i][2].op = "Simple"

\* the contract positions whose field the effective input lacks
MissingFields == {i \in 1..Len(CallContract) : CallContract[i][1] \notin DOMAIN Effective.val.m}

\* C1 as stated: every construction call, whatever its arguments, returns a
\* sealed instance or raises RecordError
C1_OnlyRecordError ==
    call.op = "construct" =>
        \/ outcome.ok /\ obj = outcome.built /\ obj.initialized = "True"
        \/ ~outcome.ok /\ obj = NoObj /\ outcome.err[1].type = "RecordError"

\* C2 as stated: when the contract is all-required, the input is a mapping that
\* lacks a required field and every field before the first missing one is
\* valid, the call fails with RecordError whose cause is the MissingFieldError
\* of the first missing field, and no instance is returned
C2_MissingFieldCause ==
    (/\ call.op = "construct"
     /\ AllRequired(call.cls)
     /\ Effective.ok /\ IsMapping(Effective.val)
     /\ MissingFields # {}
     /\ \A i \in 1..Len(CallContract) :
            (\A j \in MissingFields : i < j) => FieldResult(i).ok)
    => LET first == CHOOSE i \in MissingFields : \A j \in MissingFields : i <= j IN
       /\ ~outcome.ok
       /\ obj = NoObj
       /\ Len(outcome.err) >= 2
       /\ outcome.err[1].type = "RecordError"
       /\ outcome.err[2] = Exc("MissingFieldError", CallContract[first][1])

\* the instance as it is after _initialize, before the Init hooks run
AfterInitialize ==
    initialize(classes, Effective.val, call.order,
               object_setattr(classes, NewInstance(call.cls), "_initialized", "False").inst)

\* every field operation of the call completed without raising
FieldsConverted ==
    /\ Effective.ok
    /\ \A i \in 1..Len(CallContract) : FieldResult(i).ok

\* the PostInit hooks that raise on the instance the call built
FailingPostInit ==
    LET hooks == hooks_of(classes, call.cls, "_hook_post_init") IN
    {i \in 1..Len(hooks) : ~call_hook(classes, hooks[i], outcome.built).ok}

\* C3: a construction call returns an instance only if every field operation,
\* every Init hook and every PostInit hook completed without raising; and when
\* the fields and the Init phase completed but a PostInit hook raises, the call
\* raises RecordError tagged post-init from that hook's error and the caller
\* holds no instance, although the instance had been sealed
C3_AllOrNothing ==
    call.op = "construct" =>
        /\ obj # NoObj =>
              /\ outcome.ok
              /\ FieldsConverted
              /\ AfterInitialize.ok
              /\ run_init_hooks(classes, hooks_of(classes, call.cls, "_hook_init"),
                                AfterInitialize.inst).ok
              /\ FailingPostInit = {}
        /\ (/\ Effective.ok
            /\ init_phase(classes, call.cls, Effective.val, call.order).ok
            /\ FailingPostInit # {})
           => /\ ~outcome.ok
              /\ obj = NoObj
              /\ outcome.err[1] = ExcInfo("RecordError", call.cls, "post-init")
              /\ outcome.err[2].type = "InvalidFieldError"
              /\ outcome.built.initialized = "True"

\* a call whose fields all converted and whose instance was sealed, refused by
\* a field invariant
C3_Witness ==
    /\ call.op = "construct"
    /\ FieldsConverted
    /\ FailingPostInit # {}
    /\ outcome.built.initialized = "True"
    /\ ~outcome.ok
    /\ obj = NoObj

\* C4: on a sealed instance of a closed or an extensible record, assigning to
\* a declared field or to an undeclared attribute name raises AccessError and
\* leaves the instance as it was (_initialized names the seal itself and is
\* neither a field nor an undeclared name)
C4_SealedImmutable ==
    (/\ call.op = "setattr"
     /\ call.name # "_initialized"
     /\ Truthy(call.before.initialized))
    => /\ ~outcome.ok
       /\ outcome.err[1].type = "AccessError"
       /\ obj = call.before
       /\ gen_fields(classes, obj) = gen_fields(classes, call.before)

\* a refused write of an undeclared name on a sealed extensible instance that
\* carries a passthrough field
C4_Witness ==
    /\ call.op = "setattr"
    /\ call.name = "x"
    /\ record_kind(classes, obj.cls) = "ExtensibleRecord"
    /\ obj.dict # <<>>
    /\ Truthy(call.before.initialized)
    /\ ~outcome.ok

\* a value in basic form: as_basic_type leaves it as it is
IsBasic(v) == as_basic_type(v) = v

\* C5 as stated: for an extensible record and a mapping input whose values are
\* all in basic form, whose declared fields are all present and on which
\* construction succeeds, every key outside the contract is an attribute of
\* the instance with the input's value, and as_basic_type of the instance is
\* the input mapping
C5_RoundTrip ==
    (/\ call.op = "construct"
     /\ record_kind(classes, call.cls) = "ExtensibleRecord"
     /\ outcome.ok
     /\ IsMapping(Effective.val)
     /\ Keys(CallContract) \subseteq DOMAIN Effective.val.m
     /\ \A k \in DOMAIN Effective.val.m : IsBasic(Effective.val.m[k]))
    => /\ \A k \in DOMAIN Effective.val.m \ Keys(CallContract) :
              k \in Range(gen_names(classes, outcome.built))
       /\ record_as_basic_type(classes, outcome.built) = Effective.val.m

\* the effective input without the keys outside the contract
Narrowed == [k \in DOMAIN Effective.val.m \cap Keys(CallContract) |-> Effective.val.m[k]]

\* C6: constructing a closed record (a class that derives from Record, one
\* that also derives from an extensible record included) from a mapping with
\* keys outside the contract does what constructing it from the mapping
\* without those keys does: it succeeds or fails alike and builds the same
\* instance, whose names and as_basic_type keys are the contract's names
C6_ClosedNarrowing ==
    (/\ call.op = "construct"
     /\ issubclass(classes, call.cls, "Record")
     /\ Effective.ok /\ IsMapping(Effective.val))
    => LET narrow == RecordBase_init(classes, call.cls, Mapping(Narrowed), EmptyMap, <<>>) IN
       /\ outcome.ok = narrow.ok
       /\ outcome.ok =>
              /\ obj = narrow.inst
              /\ obj.dict = <<>>
              /\ Range(gen_names(classes, obj)) = Keys(CallContract)
              /\ DOMAIN record_as_basic_type(classes, obj) = Keys(CallContract)

\* an instance of the closed class that derives from an extensible one, built
\* from a mapping with an unknown key
C6_Witness ==
    /\ call.op = "construct"
    /\ call.cls = "PT"
    /\ outcome.ok
    /\ IsMapping(Effective.val)
    /\ "x" \in DOMAIN Effective.val.m
    /\ obj # NoObj

(***************************************************************************)
(* Properties of comparisons, under SpecEq.                                *)
(***************************************************************************)
\* C7 as stated: two instances of the same concrete record type are equal
\* exactly when their fields, passthrough fields included, are the same
\* names with equal values, taken in order
C7_SameTypeEquality ==
    (/\ call.op = "eq"
     /\ rhs.kind = "instance"
     /\ rhs.inst.cls = obj.cls)
    => (outcome.result <=> gen_fields(classes, obj) = gen_fields(classes, rhs.inst))

\* the visible fields of an instance, as a mapping from name to value
Visible(inst) == AsMap(gen_fields(classes, inst))

\* two record types neither of which derives from the other
Unrelated(c1, c2) == ~issubclass(classes, c1, c2) /\ ~issubclass(classes, c2, c1)

\* C8: a record equals a plain mapping exactly when the mapping's keys are the
\* record's visible names and every value is the record's value; the same
\* rule, over the other instance's visible fields, decides the equality of
\* instances of two unrelated record types
C8_MappingEquality ==
    call.op = "eq" =>
        /\ rhs.kind = "mapping" =>
               (outcome.result <=>
                    /\ DOMAIN rhs.m = Range(gen_names(classes, obj))
                    /\ \A k \in DOMAIN rhs.m : rhs.m[k] = Visible(obj)[k])
        /\ (rhs.kind = "instance" /\ Unrelated(obj.cls, rhs.inst.cls)) =>
               (outcome.result <=> Visible(rhs.inst) = Visible(obj))

\* an extensible record with a passthrough field found equal to a mapping
C8_Witness ==
    /\ call.op = "eq"
    /\ rhs.kind = "mapping"
    /\ obj.dict # <<>>
    /\ Cardinality(DOMAIN rhs.m) >= 3
    /\ outcome.result

(***************************************************************************)
(* Properties of class definition, under SpecDefine.                       *)
(***************************************************************************)
\* the operation a bare declaration would be promoted to: the type guard of a
\* type, the equality guard of a Tag member
Promoted(decl) ==
    IF decl.d = "type" THEN SimpleConversion(expect_type(decl.arg))
    ELSE SimpleConversion(should_be(decl.arg))

\* C9 as stated: every field a record type declares as a bare type or a bare
\* Tag member is an entry of its contract, with the guard as its operation
C9_AutoPromotion ==
    \A c \in DOMAIN classes :
        classes[c].meta =>
            \A i \in 1..Len(classes[c].namespace) :
                classes[c].namespace[i][2].d \in {"type", "Tag"} =>
                    /\ classes[c].namespace[i][1] \in Keys(get_contract(classes, c))
                    /\ Lookup(get_contract(classes, c), classes[c].namespace[i][1])
                           = Promoted(classes[c].namespace[i][2])

\* the entries the ancestors of a class with the given bases contribute, the
\* most base ancestor first, as the registry cs has them
Inherited(cs, bases) ==
    Chain([i \in 1..Len(bases) |->
              Chain([j \in 1..Len(mro(cs, bases[i])) |->
                        mro_fields_of(cs, Reverse(mro(cs, bases[i]))[j])])])

\* the value the last pair of key k gives it
LastOf(items, k) ==
    items[CHOOSE i \in 1..Len(items) :
              /\ items[i][1] = k
              /\ \A j \in (i + 1)..Len(items) : items[j][1] # k][2]

\* the step that defines record type d resolves its contract as the overlay
\* of its own fields over what its ancestors contribute, and leaves every
\* class defined before as it was
DefinesByOverlay(d) ==
    LET contract == classes'[d.name].fields
        own == split_fields(d.namespace)
        inherited == Inherited(classes, d.bases)
    IN  /\ \A n \in DOMAIN classes : classes'[n] = classes[n]
        /\ uses_RecordMeta(classes, d.bases) =>
               /\ Keys(contract) = Keys(inherited) \cup Keys(own)
               /\ Len(contract) = Cardinality(Keys(contract))
               /\ \A k \in Keys(own) : Lookup(contract, k) = LastOf(own, k)
               /\ \A k \in Keys(inherited) \ Keys(own) :
                      Lookup(contract, k) = LastOf(inherited, k)

\* C10: the contract of a derived record type is its ancestors' contracts,
\* most base first, overlaid with the fields it declares; defining it changes
\* the contract of no ancestor and of no sibling
C10_ContractResolution ==
    [][\A d \in Declarations :
           (d.name \notin DOMAIN classes /\ d.name \in DOMAIN classes') => DefinesByOverlay(d)]_vars

\* Truck has just been defined over W: its b is its own guard, W keeps the
\* conversion, and the inherited names keep their places
C10_Witness ==
    /\ call.op = "define"
    /\ call.cls = "Truck"
    /\ Lookup(get_contract(classes, "Truck"), "b") = SimpleConversion(should_be("Tag.car"))
    /\ Lookup(get_contract(classes, "W"), "b") = SimpleConversion(to_tag)
    /\ KeySeq(get_contract(classes, "Truck")) = <<"a", "b", "c">>

(***************************************************************************)
(* Properties of prepare_field, under SpecOp.                              *)
(***************************************************************************)
\* the last call is a prepare_field of an operation of the given class
PreparedBy(kind) == call.op = "prepare_field" /\ call.operation.op = kind

\* what the left and the right operand of the called operation give on the
\* input of the call
LeftResult == prepare_field(call.operation.left, call.field_name, call.values)

RightResult == prepare_field(call.operation.right, call.field_name, call.values)

\* the calls made by the left and by the right operand on the input of the call
LeftCalls == evaluated(call.operation.left, call.field_name, call.values)

RightCalls == evaluated(call.operation.right, call.field_name, call.values)

\* C11: Or(left, right).prepare_field(name, input): a left result other than
\* None is the result and right is not called; when left fails the result is
\* right's on the same input, and when right fails too the error is right's
\* with left's failure as its cause; when left gives None the result is
\* right's on the original input.
C11_Or ==
    PreparedBy("Or") =>
        \A left \in {LeftResult}, right \in {RightResult} :
            /\ (left.ok /\ left.val # None) =>
                    /\ outcome.result = left
                    /\ outcome.calls = <<Called(call.operation, call.values)>> \o LeftCalls
            /\ (~left.ok /\ right.ok) => outcome.result = right
            /\ (~left.ok /\ ~right.ok) =>
                    /\ ~outcome.result.ok
                    /\ outcome.result.err = <<right.err[1]>> \o left.err
            /\ (left.ok /\ left.val = None) => outcome.result = right
            /\ ~(left.ok /\ left.val # None) =>
                    outcome.calls =
                        <<Called(call.operation, call.values)>> \o LeftCalls \o RightCalls

\* skip_missing | expect_type(int) on an input without the field: left gives
\* None, right is called on the original input and misses the field
C11_Witness ==
    /\ PreparedBy("Or")
    /\ call.operation.left = skip_missing
    /\ call.operation.right = SimpleConversion(expect_type("int"))
    /\ call.field_name \notin DOMAIN call.values.m
    /\ LeftResult = Ok(None)
    /\ ~outcome.result.ok
    /\ outcome.result.err[1] = Exc("MissingFieldError", call.field_name)

\* the input of the call with only the entry of the called field replaced
Replaced(v) ==
    Mapping([k \in DOMAIN call.values.m \cup {call.field_name} |->
                IF k = call.field_name THEN v ELSE call.values.m[k]])

\* C12: Pipe(left, right).prepare_field(name, input) calls left first; a
\* failure of left is the failure of the pipe; when left gives None the
\* result is None and right is not called; otherwise the result, a failure
\* included, is right's on the input in which only the entry of name is
\* replaced by left's result.
C12_Pipe ==
    PreparedBy("Pipe") =>
        \A left \in {LeftResult} :
            /\ (~left.ok) =>
                    /\ outcome.result = left
                    /\ outcome.calls = <<Called(call.operation, call.values)>> \o LeftCalls
            /\ (left.ok /\ left.val = None) =>
                    /\ outcome.result = Ok(None)
                    /\ outcome.calls = <<Called(call.operation, call.values)>> \o LeftCalls
            /\ (left.ok /\ left.val # None) =>
                    /\ outcome.result =
                           prepare_field(call.operation.right, call.field_name,
                                         Replaced(left.val))
                    /\ outcome.calls =
                           <<Called(call.operation, call.values)>> \o LeftCalls \o
                           evaluated(call.operation.right, call.field_name,
                                     Replaced(left.val))

\* provide_missing("0") >> expect_type(int) on an input that has another key
\* and not the field: right sees the default under the field's name and the
\* other key as it was
C12_Witness ==
    /\ PreparedBy("Pipe")
    /\ call.operation = Pipe(provide_missing("0"), SimpleConversion(expect_type("int")))
    /\ call.field_name = "a"
    /\ call.values = Mapping([k \in {"b"} |-> "1"])
    /\ outcome.result = Ok("0")
    /\ outcome.calls[3] = Called(call.operation.right,
                                 Mapping([k \in {"a", "b"} |-> IF k = "a" THEN "0" ELSE "1"]))

\* the field of the call has an entry in the input of the call
FieldPresent == call.field_name \in DOMAIN call.values.m

\* C13: provide_missing(d).prepare_field(name, input) gives d when input has
\* no entry for name, d when the entry is None, and the entry itself in every
\* other case, falsy values included; it raises nothing, so no
\* MissingFieldError.
C13_ProvideMissing ==
    PreparedBy("Provide") =>
        /\ ~FieldPresent => outcome.result = Ok(call.operation.conv.arg)
        /\ (FieldPresent /\ call.values.m[call.field_name] = None) =>
                outcome.result = Ok(call.operation.conv.arg)
        /\ (FieldPresent /\ call.values.m[call.field_name] # None) =>
                outcome.result = Ok(call.values.m[call.field_name])
        /\ outcome.result.ok

\* provide_missing("car") on an input whose entry is the empty string
C13_Witness ==
    /\ PreparedBy("Provide")
    /\ call.operation = provide_missing("car")
    /\ FieldPresent
    /\ call.values.m[call.field_name] = ""
    /\ outcome.result = Ok("")

\* C14: SimpleConversion(f).prepare_field(name, input) fails with
\* MissingFieldError(name) when input has no entry for name; otherwise it
\* applies f to the entry, None included: an exception of f that is not an
\* error.Error becomes InvalidFieldError(name) with the exception as cause,
\* an error.Error raised by f is raised as it is.  Type and predicate guards
\* are such conversions.
C14_SimpleConversion ==
    PreparedBy("Simple") =>
        /\ ~FieldPresent =>
                /\ ~outcome.result.ok
                /\ outcome.result.err[1] = Exc("MissingFieldError", call.field_name)
        /\ FieldPresent =>
                \A r \in {ApplyConvert(call.operation.conv, call.values.m[call.field_name])} :
                    /\ r.ok => outcome.result = r
                    /\ (~r.ok /\ r.err[1].type \notin FrameworkErrors) =>
                            /\ ~outcome.result.ok
                            /\ outcome.result.err =
                                   <<Exc("InvalidFieldError", call.field_name)>> \o r.err
                    /\ (~r.ok /\ r.err[1].type \in FrameworkErrors) => outcome.result = r

\* the factory of Conn on a nested mapping Conn rejects: the RecordError of
\* Conn is raised as it is
C14_Witness ==
    /\ PreparedBy("Simple")
    /\ call.operation = Factory("Conn")
    /\ FieldPresent
    /\ call.values.m[call.field_name] = "{a: car}"
    /\ ~outcome.result.ok
    /\ outcome.result.err[1] = ExcInfo("RecordError", "Conn", "init")

(***************************************************************************)
(* Properties of sub-records, under Spec.                                  *)
(***************************************************************************)
\* the contract positions of the construction call declared as a sub-record
\* for which the effective input has a nested mapping, every other field of
\* the contract being accepted
SubrecordFields ==
    IF call.op = "construct" /\ Effective.ok /\ IsMapping(Effective.val)
    THEN {i \in 1..Len(CallContract) :
              /\ CallContract[i][2].op = "Simple"
              /\ CallContract[i][2].conv.conv = "factory"
              /\ CallContract[i][1] \in DOMAIN Effective.val.m
              /\ Effective.val.m[CallContract[i][1]] \in Dicts
              /\ \A j \in 1..Len(CallContract) : j # i => FieldResult(j).ok}
    ELSE {}

\* the nested mapping of the i-th contract field, the record type T of the
\* field and what T makes of the nested mapping
Nested(i) == Effective.val.m[CallContract[i][1]]

NestedType(i) == CallContract[i][2].conv.arg

NestedResult(i) ==
    RecordBase_init(classes, NestedType(i), as_argument(Nested(i)), EmptyMap, <<>>)

\* the outer construction fails with a RecordError whose cause chain ends in
\* the chain of the failure of T, the inner field's error included
FailsFromInner(i) ==
    /\ ~outcome.ok
    /\ obj = NoObj
    /\ outcome.err[1] = ExcInfo("RecordError", call.cls, "init")
    /\ \E n \in 1..Len(outcome.err) :
           /\ SubSeq(outcome.err, n, Len(outcome.err)) = NestedResult(i).err
           /\ \E k \in n..Len(outcome.err) :
                  /\ outcome.err[k].type \in {"MissingFieldError", "InvalidFieldError"}
                  /\ outcome.err[k].name \in Keys(get_contract(classes, NestedType(i)))

\* the field of the outer instance holds a sealed instance of T
HoldsSealed(i) ==
    /\ outcome.ok
    /\ obj.slots[CallContract[i][1]] \in InstanceValues
    /\ instance_of(obj.slots[CallContract[i][1]]) = NestedResult(i).inst
    /\ NestedResult(i).inst.cls = NestedType(i)
    /\ NestedResult(i).inst.initialized = "True"

NestedInContract(i) ==
    dict_value([k \in DOMAIN dict_of(Nested(i)) \cap
                      Keys(get_contract(classes, NestedType(i))) |-> dict_of(Nested(i))[k]])

LiteralOrder == <<"a", "b", "c", "x", "_initialized">>

\* the members of the set S in the order of the sequence s
InOrder(s, S) == LET member(k) == k \in S IN SelectSeq(s, member)

\* the keys of the effective input in its order: {**values, **overrides}
\* keeps the keys of values in place and appends the new keys of overrides
EffectiveOrder ==
    IF ~IsMapping(call.values) THEN InOrder(LiteralOrder, DOMAIN call.overrides)
    ELSE InOrder(LiteralOrder, DOMAIN call.values.m) \o
         InOrder(LiteralOrder, DOMAIN call.overrides \ DOMAIN call.values.m)

\* C16 as stated: the fields of an instance come in a stable order, the
\* declared fields in contract order, then the passthrough fields in the
\* order in which their keys appear in the input mapping
C16_IterationOrder ==
    (call.op = "construct" /\ outcome.ok) =>
        KeySeq(gen_fields(classes, obj)) =
            KeySeq(CallContract) \o InOrder(EffectiveOrder, Keys(obj.dict))

(***************************************************************************)
(* Properties of hook attachment, under SpecHooks.                         *)
(***************************************************************************)
\* the object the last expression created
Created == heap[outcome.result.ref]

\* an operand of the last expression as it was before the expression
Before(operand) == call.before[operand.ref]

\* operation << h gives a new HooksFactory with that operation and the hooks
\* of h; hf << h gives a new one with the operation of hf and the hooks of hf
\* followed by those of h, so that op << h1 << h2 has the leftmost operation
\* op and the hooks of h1, then of h2; no object that existed before is
\* changed; hf << operation raises TypeError
AttachmentHolds ==
    /\ (call.op = "lshift" /\ ~IsHooksFactory(call.left) /\ IsHooksFactory(call.right)) =>
            /\ outcome.ok
            /\ outcome.result = Ref(Len(call.before) + 1)
            /\ Created.operation = call.left
            /\ gen_hooks(Created, "a") = gen_hooks(Before(call.right), "a")
    /\ (call.op = "lshift" /\ IsHooksFactory(call.left) /\ IsHooksFactory(call.right)) =>
            /\ outcome.ok
            /\ outcome.result = Ref(Len(call.before) + 1)
            /\ Created.operation = Before(call.left).operation
            /\ gen_hooks(Created, "a") =
                   gen_hooks(Before(call.left), "a") \o gen_hooks(Before(call.right), "a")
    /\ call.op \in {"lshift", "rshift", "or"} =>
            /\ Len(heap) >= Len(call.before)
            /\ \A i \in 1..Len(call.before) : heap[i] = call.before[i]
    /\ (call.op = "lshift" /\ IsHooksFactory(call.left) /\ ~IsHooksFactory(call.right)) =>
            /\ ~outcome.ok
            /\ outcome.err[1].type = "TypeError"
            /\ heap = call.before

\* operation >> hf raises ValueError
PipeRejected ==
    (call.op = "rshift" /\ ~IsHooksFactory(call.left) /\ IsHooksFactory(call.right)) =>
        /\ ~outcome.ok
        /\ outcome.err[1].type = "ValueError"

\* C17 as stated: op << h1 and op << h1 << h2 give a new HooksFactory with
\* the leftmost operation and the hooks of the operands from left to right,
\* the operands stay as they were, a HooksFactory << Operation raises
\* TypeError and a HooksFactory used as a conversion in a pipe raises
\* ValueError
C17_HookAttachment == AttachmentHolds /\ PipeRejected

(***************************************************************************)
(* Properties of the order of the phases, under SpecPhases.                *)
(***************************************************************************)
\* a constructor got past the merge of its arguments
Constructing == pc.phase # "idle" /\ pc.at > 0

\* the steps of a whole construction of the called class, as the claim
\* orders them: the contract fields in contract order, the passthrough copy
\* of an extensible type, the Init hooks in declaration order, the seal, the
\* PostInit hooks in declaration order
ExpectedSteps ==
    [i \in 1..Len(CallContract) |-> [phase |-> "fields", item |-> CallContract[i]]] \o
    (IF record_kind(classes, call.cls) = "ExtensibleRecord"
     THEN <<[phase |-> "other", item |-> call.order]>> ELSE <<>>) \o
    [i \in 1..Len(hooks_of(classes, call.cls, "_hook_init")) |->
        [phase |-> "init_hooks", item |-> hooks_of(classes, call.cls, "_hook_init")[i]]] \o
    <<[phase |-> "seal", item |-> "_initialized"]>> \o
    [i \in 1..Len(hooks_of(classes, call.cls, "_hook_post_init")) |->
        [phase |-> "post_hooks", item |-> hooks_of(classes, call.cls, "_hook_post_init")[i]]]

\* the steps taken so far are the first of the expected steps, in order
StepsInOrder ==
    /\ Len(pc.log) <= Len(ExpectedSteps)
    /\ \A i \in 1..Len(pc.log) :
           /\ pc.log[i].phase = ExpectedSteps[i].phase
           /\ pc.log[i].item = ExpectedSteps[i].item

\* a constructor that raised stopped at the step that failed; one that
\* returned took every step
StopsAtFailure ==
    /\ pc.phase = "raised" =>
           /\ pc.log # <<>>
           /\ ~outcome.ok
           /\ ~Step(classes, pc.log[Len(pc.log)].phase, pc.log[Len(pc.log)].item,
                    pc.input, pc.log[Len(pc.log)].seen).ok
    /\ pc.phase = "returned" =>
           /\ Len(pc.log) = Len(ExpectedSteps)
           /\ outcome.ok

\* every Init hook met an unsealed instance with every primary field set
InitHooksSeeFields ==
    \A i \in 1..Len(pc.log) :
        pc.log[i].phase = "init_hooks" =>
            /\ pc.log[i].seen.initialized = "False"
            /\ \A j \in 1..Len(CallContract) :
                   \A r \in {prepare_field(CallContract[j][2], CallContract[j][1], pc.input)} :
                       /\ r.ok
                       /\ r.val # None => CallContract[j][1] \in DOMAIN pc.log[i].seen.slots
            /\ record_kind(classes, call.cls) = "ExtensibleRecord" =>
                   \A k \in other_keys(classes, call.cls, pc.input) \ {"_initialized"} :
                       k \in Keys(pc.log[i].seen.dict)

\* what an Init hook returned is written before the next step
InitWritesBeforeNext ==
    \A i \in 1..(Len(pc.log) - 1) :
        pc.log[i].phase = "init_hooks" =>
            \A res \in {call_hook(classes, pc.log[i].item, pc.log[i].seen)} :
                /\ res.ok
                /\ res.val.set =>
                       getattr(classes, pc.log[i + 1].seen, res.val.name) = Ok(res.val.value)
                /\ ~res.val.set => pc.log[i + 1].seen = pc.log[i].seen

\* every PostInit hook met the instance the seal met, sealed
PostHooksSeeSealed ==
    \A i \in 1..Len(pc.log) :
        pc.log[i].phase = "post_hooks" =>
            /\ pc.log[i].seen.initialized = "True"
            /\ \E k \in 1..(i - 1) :
                   /\ pc.log[k].phase = "seal"
                   /\ pc.log[i].seen = [pc.log[k].seen EXCEPT !.initialized = "True"]

PhasesAgree ==
    pc.phase \in {"raised", "returned"} =>
        \A r \in {RecordBase_init(classes, call.cls, call.values, call.overrides, call.order)} :
            /\ outcome.ok = r.ok
            /\ outcome.err = r.err
            /\ outcome.built = r.inst

(***************************************************************************)
(* Properties of writes after the seal, under Spec.                        *)
(***************************************************************************)
\* C19 as stated: every instance a caller holds was sealed by its
\* constructor; every attribute write on it, whatever the name, the seal
\* flag _initialized included, raises AccessError and leaves the instance as
\* it was, so the instance stays sealed and keeps its field values
C19_SealedTerminal ==
    /\ call.op = "setattr" =>
           /\ ~outcome.ok
           /\ outcome.err[1].type = "AccessError"
           /\ obj = call.before
    /\ (call.op \in {"construct", "setattr"} /\ obj # NoObj) =>
           Truthy(obj.initialized)

(***************************************************************************)
(* Properties of the merge of the arguments, under Spec.                   *)
(***************************************************************************)
\* the positional mapping and the keyword overrides of the call as one
\* mapping: every key of either, the override's value where both have the key
EffectiveInput ==
    [k \in DOMAIN call.values.m \cup DOMAIN call.overrides |->
        IF k \in DOMAIN call.overrides THEN call.overrides[k] ELSE call.values.m[k]]

\* C20 as stated: a construction from a positional mapping (or none) and
\* keyword overrides ends as the construction from the one mapping that holds
\* every key of either with the override's value on collision; and for every
\* record type, one with an empty contract included, a construction whose
\* non-empty positional argument is not a mapping fails and returns no instance
C20_InputMerge ==
    call.op = "construct" =>
        /\ call.values.kind # "other" =>
               \A r \in {RecordBase_init(classes, call.cls, Mapping(EffectiveInput),
                                         EmptyMap, call.order)} :
                   /\ outcome.ok = r.ok
                   /\ outcome.err = r.err
                   /\ outcome.built = r.inst
        /\ call.values.kind = "other" =>
               /\ ~outcome.ok
               /\ obj = NoObj

\* the merge half of C20 alone
MergeHolds ==
    (call.op = "construct" /\ call.values.kind # "other") =>
        \A r \in {RecordBase_init(classes, call.cls, Mapping(EffectiveInput),
                                  EmptyMap, call.order)} :
            /\ outcome.ok = r.ok
            /\ outcome.err = r.err
            /\ outcome.built = r.inst

(***************************************************************************)
(* Properties of the equality of two instances, under SpecEq.              *)
(***************************************************************************)
\* one class derives from the other and they are not the same class
ProperSubtype(c1, c2) == c1 # c2 /\ issubclass(classes, c1, c2)

\* C21: for two record instances, of one type, of unrelated types or of a
\* type and one of its subtypes, a == b gives what b == a gives
C21_EqSymmetric ==
    (call.op = "eq" /\ rhs.kind = "instance") =>
        (outcome.result <=> richcompare_eq(classes, rhs.inst, Instance(obj)))

\* a W instance compared with an instance of its subtype Truck, which adds
\* the field c to the two fields they share with equal values: the zip of
\* the first branch of __eq__ would find them equal, the comparison does not
C21_Witness ==
    /\ call.op = "eq"
    /\ rhs.kind = "instance"
    /\ ProperSubtype(rhs.inst.cls, obj.cls)
    /\ Len(gen_fields(classes, rhs.inst)) > Len(gen_fields(classes, obj))
    /\ eq_same_type(classes, obj, rhs)
    /\ ~outcome.result

(***************************************************************************)
(* Properties of the hooks of derived types, under SpecPhases.             *)
(***************************************************************************)
\* the hooks the record types of the mro of c declare on their fields, the
\* hooks of c itself included
DeclaredHooks(c) ==
    UNION {UNION {Range(classes[k].hooks[t]) :
                      t \in {"_hook_init", "_hook_post_init"} \cap DOMAIN classes[k].hooks} :
               k \in {n \in Range(mro(classes, c)) : classes[n].meta}}

\* hook h was run by the constructor that returned
WasRun(h) ==
    \E i \in 1..Len(pc.log) :
        /\ pc.log[i].phase \in {"init_hooks", "post_hooks"}
        /\ pc.log[i].item = h

\* C22 as stated: a constructor that returned an instance ran every Init and
\* PostInit hook declared on a field of the type or of any record type it
\* derives from, and every invariant among them holds on the instance
C22_HooksInherited ==
    pc.phase = "returned" =>
        \A h \in DeclaredHooks(call.cls) :
            /\ WasRun(h)
            /\ h.target = "_hook_post_init" => call_hook(classes, h, obj).ok

\* the part of C22 that holds: a type that declares no hook for a phase runs
\* the hooks of that phase of the nearest ancestor that declares some
InheritedWhenNoneDeclared ==
    pc.phase = "returned" =>
        \A t \in {"_hook_init", "_hook_post_init"} :
            t \notin DOMAIN classes[call.cls].hooks =>
                \A k \in Range(mro(classes, call.cls)) :
                    (/\ classes[k].meta
                     /\ t \in DOMAIN classes[k].hooks
                     /\ \A n \in Range(mro(classes, call.cls)) :
                            (n # k /\ classes[n].meta /\ t \in DOMAIN classes[n].hooks)
                                => issubclass(classes, k, n))
                    => \A h \in Range(classes[k].hooks[t]) :
                           /\ WasRun(h)
                           /\ t = "_hook_post_init" => call_hook(classes, h, obj).ok

\* PT(Record, Truck), which declares no hook, returned an instance: the
\* invariant of Truck was run on it
InheritedWitness ==
    /\ pc.phase = "returned"
    /\ call.cls = "PT"
    /\ \E h \in DeclaredHooks("PT") : WasRun(h)

\* a constructor returned an instance on which an invariant declared by an
\* ancestor of its type does not hold
AncestorInvariantBroken ==
    /\ pc.phase = "returned"
    /\ \E h \in DeclaredHooks(call.cls) :
           /\ h.target = "_hook_post_init"
           /\ ~call_hook(classes, h, obj).ok

====
